---------------------------- MODULE Spec2Model ----------------------------
(***************************************************************************)
(* A model of src/app.py: the diabetes-prediction Flask service.           *)
(*                                                                         *)
(* Python values are modelled as follows.                                  *)
(*   - a dict is a sequence of <<key, value>> pairs with distinct keys, in *)
(*     insertion order; lookups go by key.                                 *)
(*   - a feature value is Num(n) (a number) or Str (a non-numeric string). *)
(*   - None is the record None.                                            *)
(*   - a probability is an integer number of 1/PUnit steps, so that 0.5 is *)
(*     the point 2 * p = PUnit.                                            *)
(***************************************************************************)
EXTENDS Integers, Sequences, FiniteSets, TLC

VARIABLES
    model_file, \* what joblib.load finds at MODEL_PATH
    MODEL, SCALER, FEATURES, FEATURE_IMPORTANCE, METRICS, MODEL_NAME,
    now,        \* the wall clock read by datetime.now()
    pc,         \* per worker thread: where its request handler stands
    request,    \* per worker thread: the request it is handling
    frame,      \* per worker thread: the handler's local variables
    response,   \* per worker thread: the response it returned
    call,       \* the function a direct call invokes, with its arguments
    ret         \* what that call returned

globals == <<MODEL, SCALER, FEATURES, FEATURE_IMPORTANCE, METRICS, MODEL_NAME>>
server  == <<model_file, now, pc, request, frame, response>>
direct  == <<call, ret>>
vars    == <<globals, server, direct>>

-----------------------------------------------------------------------------
(* Bounds of the model. *)

PUnit     == 10   \* probabilities are multiples of 1/PUnit
MaxRows   == 2    \* rows of a matrix handed to the adapter directly
MaxFactors == 4   \* length of a risk-factor sequence handed to get_emergency_note
MaxBatch  == 3    \* patients in one batch request (single worker)
MaxBatchConc == 2 \* patients in one batch request (two workers)
MaxClock  == 1    \* ticks of the wall clock

-----------------------------------------------------------------------------
(* Python values. *)

None == [type |-> "NoneType"]
Num(n) == [num |-> n]
Str == [str |-> "abc"]
IsNum(v) == "num" \in DOMAIN v

Keys(d) == {d[i][1] : i \in DOMAIN d}
Has(d, k) == k \in Keys(d)
Get(d, k, default) ==
    IF Has(d, k) THEN d[CHOOSE i \in DOMAIN d : d[i][1] = k][2] ELSE default

RECURSIVE Filter(_, _)
Filter(s, keep) ==
    IF s = <<>> THEN <<>>
    ELSE (IF Head(s) \in keep THEN <<Head(s)>> ELSE <<>>) \o Filter(Tail(s), keep)

Max(a, b) == IF a >= b THEN a ELSE b

-----------------------------------------------------------------------------
(* The classifier adapter. *)

\* booster.predict(dmat): the raw scoring model, one positive-class
\* probability per row.  The booster is a library object; it is modelled as a
\* clamped linear score of the row.
Clamp(x) == IF x < 0 THEN 0 ELSE IF x > PUnit THEN PUnit ELSE x

RECURSIVE Dot(_, _)
Dot(w, row) ==
    IF w = <<>> \/ row = <<>> THEN 0
    ELSE Head(w) * Head(row) + Dot(Tail(w), Tail(row))

BoosterPredict(booster, X) ==
    [i \in DOMAIN X |-> Clamp(booster.bias + Dot(booster.weights, X[i]))]

Wrapper_predict_ge(self, X) ==
    LET proba == BoosterPredict(self.booster, X)
    IN  [i \in DOMAIN proba |-> IF 2 * proba[i] >= PUnit THEN 1 ELSE 0]

\* XGBoostBoosterWrapper.predict: (proba > 0.5).astype(int)
Wrapper_predict(self, X) ==
    LET proba == BoosterPredict(self.booster, X)
    IN  [i \in DOMAIN proba |-> IF 2 * proba[i] > PUnit THEN 1 ELSE 0]

\* XGBoostBoosterWrapper.predict_proba: column_stack([1 - proba, proba])
Wrapper_predict_proba(self, X) ==
    LET proba == BoosterPredict(self.booster, X)
    IN  [i \in DOMAIN proba |-> <<PUnit - proba[i], proba[i]>>]

\* MODEL.predict / MODEL.predict_proba / hasattr(MODEL, 'predict_proba') for
\* the model object the artifact holds: the wrapper above, or an estimator
\* that only labels.
HasPredictProba(model) == model.kind = "XGBoostBoosterWrapper"
Model_predict(model, X) ==
    IF model.kind = "XGBoostBoosterWrapper" THEN Wrapper_predict(model, X)
    ELSE [i \in DOMAIN X |-> IF Dot(model.weights, X[i]) > model.cut THEN 1 ELSE 0]
Model_predict_proba(model, X) == Wrapper_predict_proba(model, X)

-----------------------------------------------------------------------------
(* Risk factors and recommendations. *)

\* A text is the tuple of its fixed wording and the values formatted into it.
Text(wording) == <<wording>>
\* f'High BMI ({bmi})', f'Overweight BMI ({bmi})', f'... (current: {bmi})'
TextWith(wording, bmi) == <<wording, bmi.num>>

RiskFactor(factor, severity, description) ==
    [factor |-> factor, severity |-> severity, description |-> description]

SeverityHigh_critical == "critical"
\* 'severity': 'high', the severity of the HighBP, HighChol,
\* HeartDiseaseorAttack and Smoker factors.
SeverityHigh == "high"

\* The comparisons bmi >= 30 and gen_health >= 4 raise TypeError on a string.
get_risk_factors_raises(features) ==
    \/ ~IsNum(Get(features, "BMI", Num(0)))
    \/ ~IsNum(Get(features, "GenHlth", Num(3)))

get_risk_factors_keyorder(features) ==
    LET Rule(k) ==
            LET v == features[k][2]
            IN  CASE features[k][1] = "HighBP" /\ v = Num(1) ->
                       <<RiskFactor(Text("High Blood Pressure"), "high",
                                    "Elevated blood pressure increases diabetes risk")>>
                  [] features[k][1] = "HighChol" /\ v = Num(1) ->
                       <<RiskFactor(Text("High Cholesterol"), "high",
                                    "High cholesterol is associated with diabetes")>>
                  [] features[k][1] = "BMI" /\ v.num >= 30 ->
                       <<RiskFactor(TextWith("High BMI", v), "critical",
                                    "Obesity significantly increases diabetes risk")>>
                  [] features[k][1] = "BMI" /\ v.num >= 25 /\ v.num < 30 ->
                       <<RiskFactor(TextWith("Overweight BMI", v), "moderate",
                                    "Being overweight increases diabetes risk")>>
                  [] features[k][1] = "HeartDiseaseorAttack" /\ v = Num(1) ->
                       <<RiskFactor(Text("Heart Disease"), "high",
                                    "Cardiovascular disease is linked to diabetes")>>
                  [] features[k][1] = "PhysActivity" /\ v = Num(0) ->
                       <<RiskFactor(Text("Low Physical Activity"), "moderate",
                                    "Lack of exercise increases diabetes risk")>>
                  [] features[k][1] = "Smoker" /\ v = Num(1) ->
                       <<RiskFactor(Text("Smoking"), "high",
                                    "Smoking increases diabetes risk by 30-40%")>>
                  [] features[k][1] = "GenHlth" /\ v.num >= 4 ->
                       <<RiskFactor(Text("Poor General Health"), "moderate",
                                    "Poor health status correlates with diabetes")>>
                  [] OTHER -> <<>>
        Walk[k \in 0..Len(features)] ==
            IF k = 0 THEN <<>> ELSE Walk[k - 1] \o Rule(k)
    IN  Walk[Len(features)]

\* get_risk_factors: seven rules, each appending at most one factor, in the
\* order of the source text.
get_risk_factors(features) ==
    LET bmi == Get(features, "BMI", Num(0))
        gen_health == Get(features, "GenHlth", Num(3))
        r1 == IF Get(features, "HighBP", Num(0)) = Num(1)
              THEN <<RiskFactor(Text("High Blood Pressure"), SeverityHigh,
                                "Elevated blood pressure increases diabetes risk")>>
              ELSE <<>>
        r2 == IF Get(features, "HighChol", Num(0)) = Num(1)
              THEN <<RiskFactor(Text("High Cholesterol"), SeverityHigh,
                                "High cholesterol is associated with diabetes")>>
              ELSE <<>>
        r3 == IF bmi.num >= 30
              THEN <<RiskFactor(TextWith("High BMI", bmi), "critical",
                                "Obesity significantly increases diabetes risk")>>
              ELSE IF bmi.num >= 25
              THEN <<RiskFactor(TextWith("Overweight BMI", bmi), "moderate",
                                "Being overweight increases diabetes risk")>>
              ELSE <<>>
        r4 == IF Get(features, "HeartDiseaseorAttack", Num(0)) = Num(1)
              THEN <<RiskFactor(Text("Heart Disease"), SeverityHigh,
                                "Cardiovascular disease is linked to diabetes")>>
              ELSE <<>>
        r5 == IF Get(features, "PhysActivity", Num(0)) = Num(0)
              THEN <<RiskFactor(Text("Low Physical Activity"), "moderate",
                                "Lack of exercise increases diabetes risk")>>
              ELSE <<>>
        r6 == IF Get(features, "Smoker", Num(0)) = Num(1)
              THEN <<RiskFactor(Text("Smoking"), SeverityHigh,
                                "Smoking increases diabetes risk by 30-40%")>>
              ELSE <<>>
        r7 == IF gen_health.num >= 4
              THEN <<RiskFactor(Text("Poor General Health"), "moderate",
                                "Poor health status correlates with diabetes")>>
              ELSE <<>>
    IN  r1 \o r2 \o r3 \o r4 \o r5 \o r6 \o r7

\* rf.get('severity') == 'critical'
IsCritical(rf) == "severity" \in DOMAIN rf /\ rf.severity = "critical"

critical_factors(risk_factors) ==
    SelectSeq(risk_factors, IsCritical)

HIGH_PRIORITY ==
    "HIGH PRIORITY: Multiple critical risk factors detected. Consult a healthcare provider immediately."
ELEVATED_RISK ==
    "ELEVATED RISK: Schedule an appointment with your healthcare provider for comprehensive evaluation."
MAINTAIN_HEALTHY_HABITS ==
    "MAINTAIN HEALTHY HABITS: Continue preventive measures and regular health monitoring."

get_emergency_note_two(prediction, risk_factors) ==
    IF prediction = 1 /\ Len(critical_factors(risk_factors)) >= 2 THEN HIGH_PRIORITY
    ELSE IF prediction = 1 THEN ELEVATED_RISK
    ELSE MAINTAIN_HEALTHY_HABITS

get_emergency_note(prediction, risk_factors) ==
    IF prediction = 1 /\ Len(critical_factors(risk_factors)) > 2 THEN HIGH_PRIORITY
    ELSE IF prediction = 1 THEN ELEVATED_RISK
    ELSE MAINTAIN_HEALTHY_HABITS

ExerciseStart == <<"Start with 30 minutes of moderate exercise 5 days per week",
                   "Include both cardio and strength training exercises">>
ExerciseFallback == <<"Walking: 10,000 steps daily",
                      "Resistance training: 2-3 times per week",
                      "Yoga or stretching: stress management and flexibility">>
NutritionFixed == <<"Increase fiber intake: whole grains, vegetables, fruits",
                    "Limit sugary drinks and processed foods",
                    "Practice portion control and regular meal timing",
                    "Stay hydrated: 8-10 glasses of water daily">>
MedicalFixed == <<"Get HbA1c test every 3-6 months",
                  "Schedule regular check-ups with healthcare provider",
                  "Monitor fasting blood glucose weekly">>

\* The comparison bmi >= 25 raises TypeError on a string.
generate_base_recommendations_raises(features) ==
    ~IsNum(Get(features, "BMI", Num(0)))

ExerciseEntries_stacked(features) ==
    (IF Get(features, "PhysActivity", Num(0)) = Num(0) THEN ExerciseStart ELSE <<>>)
    \o ExerciseFallback

\* The exercise category of generate_base_recommendations: two entries when
\* PhysActivity is 0, and the three fallback entries only when the list is
\* still empty at the end.
ExerciseEntries(features) ==
    LET exercise == IF Get(features, "PhysActivity", Num(0)) = Num(0)
                    THEN ExerciseStart ELSE <<>>
    IN  IF exercise = <<>> THEN exercise \o ExerciseFallback ELSE exercise

generate_base_recommendations(features, prediction, risk_factors) ==
    LET bmi == Get(features, "BMI", Num(0))
    IN  [ai_generated |-> FALSE,
         emergency_note |-> get_emergency_note(prediction, risk_factors),
         lifestyle |->
            (IF Get(features, "Smoker", Num(0)) = Num(1)
             THEN <<Text("Quit smoking - reduces diabetes risk by 30-40% within 5 years")>>
             ELSE <<>>)
            \o (IF bmi.num >= 25
                THEN <<TextWith("Weight management: Target BMI < 25 (current)", bmi)>>
                ELSE <<>>),
         medical |->
            (IF Get(features, "HighBP", Num(0)) = Num(1)
             THEN <<"Monitor blood pressure regularly, target <130/80 mmHg">>
             ELSE <<>>)
            \o (IF Get(features, "HighChol", Num(0)) = Num(1)
                THEN <<"Monitor cholesterol levels, consider statin therapy if needed">>
                ELSE <<>>)
            \o MedicalFixed,
         nutrition |->
            (IF bmi.num >= 25
             THEN <<"Follow a balanced diet with calorie deficit for weight loss">>
             ELSE <<>>)
            \o NutritionFixed,
         exercise |-> ExerciseEntries(features)]

-----------------------------------------------------------------------------
(* Direct calls of the functions, on inputs drawn from bounded sets. *)

RuleKeys == <<"HighBP", "HighChol", "BMI", "HeartDiseaseorAttack",
              "PhysActivity", "Smoker", "GenHlth">>
OtherOrder == <<"GenHlth", "Smoker", "Age", "PhysActivity",
                "HeartDiseaseorAttack", "BMI", "HighChol", "HighBP">>

Absent == [absent |-> TRUE]
Flag == {Absent, Num(0), Num(1)}
Choices ==
    [HighBP : Flag, HighChol : Flag,
     BMI : {Absent, Num(24), Num(25), Num(29), Num(30)},
     HeartDiseaseorAttack : Flag, PhysActivity : Flag, Smoker : Flag,
     GenHlth : {Absent, Num(3), Num(4)}]

RECURSIVE MakeDict(_, _)
MakeDict(keys, choice) ==
    IF keys = <<>> THEN <<>>
    ELSE LET k == Head(keys)
             v == IF k \in DOMAIN choice THEN choice[k] ELSE Num(9)
         IN  (IF v = Absent THEN <<>> ELSE << <<k, v>> >>)
             \o MakeDict(Tail(keys), choice)

FeatureDicts == {MakeDict(keys, c) : keys \in {RuleKeys, OtherOrder}, c \in Choices}

FactorPool ==
    {RiskFactor(TextWith("High BMI", Num(30)), "critical", "d"),
     RiskFactor(Text("Smoking"), "high", "d"),
     RiskFactor(Text("Low Physical Activity"), "moderate", "d"),
     [factor |-> Text("Unrated")]}
FactorSeqs == UNION {[1..n -> FactorPool] : n \in 0..MaxFactors}

Scores == 0..PUnit
Matrices == UNION {[1..n -> {<<p>> : p \in Scores}] : n \in 1..MaxRows}
UnitBooster == [bias |-> 0, weights |-> <<1>>]
UnitWrapper == [kind |-> "XGBoostBoosterWrapper", booster |-> UnitBooster]

ThreeCritical ==
    [i \in 1..3 |-> RiskFactor(TextWith("High BMI", Num(30)), "critical", "d")]

Calls ==
    {[fn |-> "predict", self |-> UnitWrapper, X |-> X] : X \in Matrices}
    \cup {[fn |-> "predict_proba", self |-> UnitWrapper, X |-> X] : X \in Matrices}
    \cup {[fn |-> "get_risk_factors", features |-> d] : d \in FeatureDicts}
    \cup {[fn |-> "get_emergency_note", prediction |-> y, risk_factors |-> rfs] :
            y \in {0, 1}, rfs \in FactorSeqs}
    \cup {[fn |-> "generate_base_recommendations", features |-> d,
            prediction |-> y,
            risk_factors |-> IF own THEN get_risk_factors(d) ELSE ThreeCritical] :
                d \in FeatureDicts, y \in {0, 1}, own \in BOOLEAN}

Pending == [status |-> "pending"]
Returned(v) == [status |-> "returned", value |-> v]
Raised(e) == [status |-> "raised", error |-> e]

Call_predict ==
    /\ call.fn = "predict" /\ ret = Pending
    /\ ret' = Returned(Wrapper_predict(call.self, call.X))
    /\ UNCHANGED <<globals, server, call>>

Call_predict_proba ==
    /\ call.fn = "predict_proba" /\ ret = Pending
    /\ ret' = Returned(Wrapper_predict_proba(call.self, call.X))
    /\ UNCHANGED <<globals, server, call>>

Call_get_risk_factors ==
    /\ call.fn = "get_risk_factors" /\ ret = Pending
    /\ ret' = IF get_risk_factors_raises(call.features) THEN Raised("TypeError")
              ELSE Returned(get_risk_factors(call.features))
    /\ UNCHANGED <<globals, server, call>>

Call_get_emergency_note ==
    /\ call.fn = "get_emergency_note" /\ ret = Pending
    /\ ret' = Returned(get_emergency_note(call.prediction, call.risk_factors))
    /\ UNCHANGED <<globals, server, call>>

Call_generate_base_recommendations ==
    /\ call.fn = "generate_base_recommendations" /\ ret = Pending
    /\ ret' = IF generate_base_recommendations_raises(call.features)
              THEN Raised("TypeError")
              ELSE Returned(generate_base_recommendations(
                                call.features, call.prediction, call.risk_factors))
    /\ UNCHANGED <<globals, server, call>>

-----------------------------------------------------------------------------
(* The process: the model artifact and the module-level load. *)

\* The required feature names, in the order of FEATURE_DESCRIPTIONS.
FeatureNames ==
    <<"HighBP", "HighChol", "CholCheck", "BMI", "Smoker", "Stroke",
      "HeartDiseaseorAttack", "PhysActivity", "Fruits", "Veggies",
      "HvyAlcoholConsump", "AnyHealthcare", "NoDocbcCost", "GenHlth",
      "MentHlth", "PhysHlth", "DiffWalk", "Sex", "Age", "Education", "Income">>

Range(s) == {s[i] : i \in DOMAIN s}
IndexOf(s, x) == CHOOSE i \in DOMAIN s : s[i] = x

\* What joblib.load(MODEL_PATH) can find: no readable file, or a dict that
\* holds some of the keys the load reads.  The scaler and the two model
\* objects are library objects, modelled by a column shift and linear scores.
ColumnWeight(f) ==
    CASE f = "HighBP" -> 2
      [] f \in {"HighChol", "BMI", "Smoker", "HeartDiseaseorAttack"} -> 1
      [] OTHER -> 0
ColumnCenter(f) == IF f = "BMI" THEN 24 ELSE 0

FittedScaler == [center |-> [i \in DOMAIN FeatureNames |-> ColumnCenter(FeatureNames[i])]]
FittedWeights == [i \in DOMAIN FeatureNames |-> ColumnWeight(FeatureNames[i])]
FittedWrapper ==
    [kind |-> "XGBoostBoosterWrapper",
     booster |-> [bias |-> 1, weights |-> FittedWeights]]
FittedLabeller == [kind |-> "LabelOnly", weights |-> FittedWeights, cut |-> 4]

WrapperData ==
    [model |-> FittedWrapper, scaler |-> FittedScaler, features |-> FeatureNames,
     feature_importance |-> [BMI |-> 3], metrics |-> [accuracy |-> 87],
     model_name |-> "XGBoost"]
LabellerData ==
    [model |-> FittedLabeller, scaler |-> FittedScaler, features |-> FeatureNames,
     metrics |-> [accuracy |-> 80], model_name |-> "LinearSVC"]
NoMetricsData ==
    [model |-> FittedWrapper, scaler |-> FittedScaler, features |-> FeatureNames,
     model_name |-> "XGBoost"]

NoFile == [readable |-> FALSE]
ModelFiles ==
    {NoFile} \cup {[readable |-> TRUE, data |-> d] :
                      d \in {WrapperData, LabellerData, NoMetricsData}}

EmptyDict == [k \in {} |-> 0]

NotLoaded ==
    [MODEL |-> None, SCALER |-> None, FEATURES |-> None,
     FEATURE_IMPORTANCE |-> EmptyDict, METRICS |-> EmptyDict,
     MODEL_NAME |-> "Not loaded"]

LoadModel_keep(file) ==
    IF ~file.readable \/ {"model", "scaler", "features"} \ DOMAIN file.data # {}
    THEN NotLoaded
    ELSE [MODEL |-> file.data.model, SCALER |-> file.data.scaler,
          FEATURES |-> file.data.features,
          FEATURE_IMPORTANCE |-> EmptyDict, METRICS |-> EmptyDict,
          MODEL_NAME |-> "Not loaded"]

\* The try block at module level: any exception (an unreadable file, a key
\* the dict lacks) reaches the except clause, which resets every global.
LoadModel(file) ==
    IF ~file.readable THEN NotLoaded
    ELSE LET model_data == file.data
         IN  IF {"model", "scaler", "features", "metrics", "model_name"}
                    \ DOMAIN model_data # {}
             THEN NotLoaded
             ELSE [MODEL |-> model_data.model,
                   SCALER |-> model_data.scaler,
                   FEATURES |-> model_data.features,
                   FEATURE_IMPORTANCE |->
                       IF "feature_importance" \in DOMAIN model_data
                       THEN model_data.feature_importance ELSE EmptyDict,
                   METRICS |-> model_data.metrics,
                   MODEL_NAME |-> model_data.model_name]

-----------------------------------------------------------------------------
(* Request handling.  Each request runs on a worker thread of its own       *)
(* (app.run(threaded=True)); a handler is a sequence of steps, and the steps *)
(* of different threads interleave.                                          *)

Workers == {"w1", "w2"}

Dict(d) == [type |-> "dict", items |-> d]
List(l) == [type |-> "list", items |-> l]

NoFrame == [stage |-> "none"]
NoResponse == [status |-> 0]

Respond(w, status, body) ==
    /\ response' = [response EXCEPT ![w] = [status |-> status, body |-> body]]
    /\ pc' = [pc EXCEPT ![w] = "done"]
    /\ frame' = [frame EXCEPT ![w] = NoFrame]

\* A request arrives and is dispatched to its route's handler.
Receive(w, req) ==
    /\ pc[w] = "idle"
    /\ pc' = [pc EXCEPT ![w] = req.route]
    /\ request' = [request EXCEPT ![w] = req]
    /\ UNCHANGED <<globals, model_file, now, frame, response, direct>>

\* The response is sent and the thread ends.
Finish(w) ==
    /\ pc[w] = "done"
    /\ pc' = [pc EXCEPT ![w] = "idle"]
    /\ request' = [request EXCEPT ![w] = [route |-> "none"]]
    /\ response' = [response EXCEPT ![w] = NoResponse]
    /\ UNCHANGED <<globals, model_file, now, frame, direct>>

\* Time passes.
Tick ==
    /\ now < MaxClock
    /\ now' = now + 1
    /\ UNCHANGED <<globals, model_file, pc, request, frame, response, direct>>

root(w) ==
    /\ pc[w] = "/"
    /\ Respond(w, 200,
               [name |-> "Diabetes Prediction API", version |-> "1.0.0",
                status |-> "running",
                model |-> IF MODEL # None THEN MODEL_NAME ELSE "not loaded"])
    /\ UNCHANGED <<globals, model_file, now, request, direct>>

health_check(w) ==
    /\ pc[w] = "/health"
    /\ Respond(w, 200,
               [status |-> "healthy",
                model |-> IF MODEL # None THEN MODEL_NAME ELSE "not loaded",
                model_accuracy |->
                    IF MODEL # None
                    THEN (IF "accuracy" \in DOMAIN METRICS THEN METRICS.accuracy ELSE 0)
                    ELSE 0,
                timestamp |-> now])
    /\ UNCHANGED <<globals, model_file, now, request, direct>>

MissingFeatures_first(features, input_features) ==
    LET all == Filter(features, Range(features) \ Keys(input_features))
    IN  IF all = <<>> THEN <<>> ELSE <<Head(all)>>

\* [f for f in FEATURES if f not in input_features]
MissingFeatures(features, input_features) ==
    Filter(features, Range(features) \ Keys(input_features))

\* pd.DataFrame([input_features])[FEATURES]: the row in the order of FEATURES
\* (KeyError when a column is missing).
SelectColumns_raises(features, input_features) ==
    Range(features) \ Keys(input_features) # {}
SelectColumns(features, input_features) ==
    [i \in DOMAIN features |-> Get(input_features, features[i], None)]

\* SCALER.transform(input_df): ValueError on a value that is no number.
Scaler_transform_raises(scaler, row) == \E i \in DOMAIN row : ~IsNum(row[i])
Scaler_transform(scaler, row) ==
    [i \in DOMAIN row |-> row[i].num - scaler.center[i]]

predict_validate(w) ==
    /\ pc[w] = "/predict"
    /\ LET data == request[w].data
       IN  IF MODEL = None
           THEN Respond(w, 500, [error |-> "Model not loaded"])
           ELSE IF DOMAIN data = {} \/ "features" \notin DOMAIN data
           THEN Respond(w, 400,
                        [error |-> "Missing features in request",
                         expected_format |->
                            [features |-> [i \in DOMAIN FEATURES |-> <<FEATURES[i], 0>>]]])
           ELSE IF data.features.type # "dict"
           THEN Respond(w, 500, [error |-> "Prediction failed", message |-> "TypeError"])
           ELSE LET input_features == data.features.items
                    missing_features == MissingFeatures(FEATURES, input_features)
                IN  IF missing_features # <<>>
                    THEN Respond(w, 400,
                                 [error |-> "Missing required features",
                                  missing |-> missing_features,
                                  required |-> FEATURES])
                    ELSE /\ frame' = [frame EXCEPT ![w] =
                                        [stage |-> "validated",
                                         input_features |-> input_features]]
                         /\ pc' = [pc EXCEPT ![w] = "predict_scale"]
                         /\ UNCHANGED response
    /\ UNCHANGED <<globals, model_file, now, request, direct>>

predict_scale_fit(w) ==
    /\ pc[w] = "predict_scale"
    /\ LET input_df == SelectColumns(FEATURES, frame[w].input_features)
       IN  IF Scaler_transform_raises(SCALER, input_df)
           THEN /\ Respond(w, 500, [error |-> "Prediction failed",
                                    message |-> "ValueError"])
                /\ UNCHANGED SCALER
           ELSE /\ SCALER' = [center |-> [i \in DOMAIN input_df |-> input_df[i].num]]
                /\ frame' = [frame EXCEPT ![w] =
                               [stage |-> "scaled",
                                input_features |-> frame[w].input_features,
                                input_scaled |-> <<[i \in DOMAIN input_df |-> 0]>>]]
                /\ pc' = [pc EXCEPT ![w] = "predict_classify"]
                /\ UNCHANGED response
    /\ UNCHANGED <<model_file, MODEL, FEATURES, FEATURE_IMPORTANCE, METRICS,
                   MODEL_NAME, now, request, direct>>

\* input_df = pd.DataFrame([input_features])[FEATURES];
\* input_scaled = SCALER.transform(input_df)
predict_scale(w) ==
    /\ pc[w] = "predict_scale"
    /\ LET input_df == SelectColumns(FEATURES, frame[w].input_features)
       IN  IF Scaler_transform_raises(SCALER, input_df)
           THEN Respond(w, 500, [error |-> "Prediction failed", message |-> "ValueError"])
           ELSE /\ frame' = [frame EXCEPT ![w] =
                               [stage |-> "scaled",
                                input_features |-> frame[w].input_features,
                                input_scaled |-> <<Scaler_transform(SCALER, input_df)>>]]
                /\ pc' = [pc EXCEPT ![w] = "predict_classify"]
                /\ UNCHANGED response
    /\ UNCHANGED <<globals, model_file, now, request, direct>>

predict_classify(w) ==
    /\ pc[w] = "predict_classify"
    /\ frame' = [frame EXCEPT ![w] =
                    [stage |-> "classified",
                     input_features |-> frame[w].input_features,
                     prediction |-> Model_predict(MODEL, frame[w].input_scaled)[1],
                     prediction_proba |->
                        IF HasPredictProba(MODEL)
                        THEN List(Model_predict_proba(MODEL, frame[w].input_scaled)[1])
                        ELSE None]]
    /\ pc' = [pc EXCEPT ![w] = "predict_respond"]
    /\ UNCHANGED <<globals, model_file, now, request, response, direct>>

predict_respond(w) ==
    /\ pc[w] = "predict_respond"
    /\ LET input_features == frame[w].input_features
           prediction == frame[w].prediction
           prediction_proba == frame[w].prediction_proba
           has_proba == prediction_proba # None
           proba == prediction_proba.items
       IN  IF \/ get_risk_factors_raises(input_features)
              \/ generate_base_recommendations_raises(input_features)
           THEN Respond(w, 500, [error |-> "Prediction failed", message |-> "TypeError"])
           ELSE LET risk_factors == get_risk_factors(input_features)
                    recommendations ==
                        generate_base_recommendations(input_features, prediction,
                                                      risk_factors)
                IN  Respond(w, 200,
                        [prediction |-> prediction,
                         prediction_label |->
                            IF prediction = 1 THEN "High Risk" ELSE "Low Risk",
                         risk_percentage |->
                            IF has_proba THEN Num(proba[2] * 100) ELSE None,
                         confidence |->
                            IF has_proba THEN Num(Max(proba[1], proba[2])) ELSE None,
                         probabilities |->
                            [no_diabetes |-> IF has_proba THEN Num(proba[1]) ELSE None,
                             diabetes |-> IF has_proba THEN Num(proba[2]) ELSE None],
                         risk_factors |-> risk_factors,
                         recommendations |-> recommendations,
                         model_name |-> MODEL_NAME,
                         timestamp |-> now])
    /\ UNCHANGED <<globals, model_file, now, request, direct>>

\* One pass of the loop body of batch_predict for patient number i + 1: the
\* try block's entry on success, the except clause's entry on any exception.
BatchEntry(i, patient) ==
    IF patient.type # "dict" \/ SelectColumns_raises(FEATURES, patient.items)
    THEN [patient_id |-> i + 1, error |-> "KeyError"]
    ELSE LET input_df == SelectColumns(FEATURES, patient.items)
         IN  IF Scaler_transform_raises(SCALER, input_df)
             THEN [patient_id |-> i + 1, error |-> "ValueError"]
             ELSE LET input_scaled == <<Scaler_transform(SCALER, input_df)>>
                      prediction == Model_predict(MODEL, input_scaled)[1]
                      has_proba == HasPredictProba(MODEL)
                      prediction_proba == Model_predict_proba(MODEL, input_scaled)[1]
                  IN  [patient_id |-> i + 1,
                       prediction |-> prediction,
                       risk_level |-> IF prediction = 1 THEN "High Risk" ELSE "Low Risk",
                       confidence |->
                          IF has_proba
                          THEN Num(Max(prediction_proba[1], prediction_proba[2]))
                          ELSE None,
                       risk_percentage |->
                          IF has_proba THEN Num(prediction_proba[2] * 100) ELSE None]

batch_predict_begin(w) ==
    /\ pc[w] = "/batch-predict"
    /\ LET data == request[w].data
       IN  IF MODEL = None
           THEN Respond(w, 500, [error |-> "Model not loaded"])
           ELSE IF DOMAIN data = {} \/ "patients" \notin DOMAIN data
           THEN Respond(w, 400, [error |-> "Missing patients data"])
           ELSE IF data.patients.type # "list"
           THEN Respond(w, 500, [error |-> "Batch prediction failed",
                                 message |-> "TypeError"])
           ELSE /\ frame' = [frame EXCEPT ![w] =
                               [stage |-> "loop",
                                patients_data |-> data.patients.items,
                                results |-> <<>>,
                                i |-> 0]]
                /\ pc' = [pc EXCEPT ![w] = "batch_loop"]
                /\ UNCHANGED response
    /\ UNCHANGED <<globals, model_file, now, request, direct>>

batch_predict_item_abort(w) ==
    /\ pc[w] = "batch_loop"
    /\ frame[w].i < Len(frame[w].patients_data)
    /\ LET i == frame[w].i
           entry == BatchEntry(i, frame[w].patients_data[i + 1])
       IN  IF "error" \in DOMAIN entry
           THEN Respond(w, 500, [error |-> "Batch prediction failed",
                                 message |-> entry.error])
           ELSE /\ frame' = [frame EXCEPT ![w].results = Append(@, entry),
                                          ![w].i = i + 1]
                /\ UNCHANGED <<pc, response>>
    /\ UNCHANGED <<globals, model_file, now, request, direct>>

\* for i, patient in enumerate(patients_data): one iteration.
batch_predict_item(w) ==
    /\ pc[w] = "batch_loop"
    /\ frame[w].i < Len(frame[w].patients_data)
    /\ LET i == frame[w].i
           patient == frame[w].patients_data[i + 1]
       IN  frame' = [frame EXCEPT ![w].results = Append(@, BatchEntry(i, patient)),
                                  ![w].i = i + 1]
    /\ UNCHANGED <<globals, model_file, now, pc, request, response, direct>>

\* The loop is over: the 200 response.
batch_predict_return(w) ==
    /\ pc[w] = "batch_loop"
    /\ frame[w].i = Len(frame[w].patients_data)
    /\ Respond(w, 200,
               [total_patients |-> Len(frame[w].patients_data),
                predictions |-> frame[w].results,
                timestamp |-> now])
    /\ UNCHANGED <<globals, model_file, now, request, direct>>

-----------------------------------------------------------------------------
(* The requests the environment sends. *)

Values(set) == {Num(n) : n \in set}
Profiles ==
    [HighBP : Values({0, 1}), HighChol : Values({0, 1}),
     BMI : Values({24, 25, 29, 30}),
     HeartDiseaseorAttack : Values({0, 1}), PhysActivity : Values({0, 1}),
     Smoker : Values({0, 1}), GenHlth : Values({3, 4})]

Profile(bp, chol, bmi, heart, active, smoker, health) ==
    [HighBP |-> Num(bp), HighChol |-> Num(chol), BMI |-> Num(bmi),
     HeartDiseaseorAttack |-> Num(heart), PhysActivity |-> Num(active),
     Smoker |-> Num(smoker), GenHlth |-> Num(health)]
Healthy == Profile(0, 0, 24, 0, 1, 0, 3)
Borderline == Profile(1, 1, 25, 0, 1, 0, 3)
Unwell == Profile(1, 1, 30, 1, 0, 1, 4)

\* A complete feature mapping, in canonical or in another key order.
Complete(c) == MakeDict(FeatureNames, c)
RECURSIVE Reverse(_)
Reverse(s) == IF s = <<>> THEN <<>> ELSE Append(Reverse(Tail(s)), Head(s))
Shuffled(c) == Append(Reverse(MakeDict(FeatureNames, c)), <<"Zip", Num(7)>>)

RECURSIVE Drop(_, _)
Drop(d, names) ==
    IF d = <<>> THEN <<>>
    ELSE (IF Head(d)[1] \in names THEN <<>> ELSE <<Head(d)>>) \o Drop(Tail(d), names)
RECURSIVE WithValue(_, _, _)
WithValue(d, k, v) ==
    IF d = <<>> THEN <<>>
    ELSE <<IF Head(d)[1] = k THEN <<k, v>> ELSE Head(d)>> \o WithValue(Tail(d), k, v)

Droppable == {"HighBP", "BMI", "Smoker", "GenHlth", "Income"}
DropSets == (SUBSET Droppable \ {{}}) \cup {Range(FeatureNames)}

PredictRequest(payload) == [route |-> "/predict", data |-> [features |-> payload]]
BatchRequest(payload) == [route |-> "/batch-predict", data |-> [patients |-> payload]]

PredictRequests ==
    {PredictRequest(Dict(Complete(c))) : c \in Profiles}
    \cup {PredictRequest(Dict(Drop(d, names))) :
            d \in {Complete(Healthy), Shuffled(Unwell)}, names \in DropSets}
    \cup {PredictRequest(Dict(WithValue(Complete(Unwell), "BMI", Str))),
          PredictRequest(Dict(Shuffled(Borderline))),
          PredictRequest(None),
          [route |-> "/predict", data |-> EmptyDict],
          [route |-> "/predict", data |-> [patients |-> List(<<>>)]]}

Patients ==
    {Dict(Complete(Healthy)), Dict(Shuffled(Unwell)), Dict(Complete(Borderline)),
     Dict(Drop(Complete(Unwell), {"BMI"})),
     Dict(WithValue(Complete(Healthy), "GenHlth", Str)),
     None}
PatientLists(max) == UNION {[1..n -> Patients] : n \in 0..max}

BatchRequests(max) ==
    {BatchRequest(List(l)) : l \in PatientLists(max)}
    \cup {BatchRequest(None), [route |-> "/batch-predict", data |-> EmptyDict]}

GetRequests == {[route |-> "/"], [route |-> "/health"]}

\* One worker thread: every request above.
AllRequests == PredictRequests \cup BatchRequests(MaxBatch) \cup GetRequests

\* Two worker threads: fewer requests.
PatientsConc ==
    {Dict(Complete(Unwell)), Dict(WithValue(Complete(Healthy), "GenHlth", Str))}
ConcRequests ==
    {PredictRequest(Dict(d)) :
        d \in {Complete(Healthy), Complete(Borderline), Shuffled(Unwell),
               Drop(Complete(Unwell), {"BMI", "Income"}),
               WithValue(Complete(Unwell), "BMI", Str)}}
    \cup {BatchRequest(List(l)) :
            l \in UNION {[1..n -> PatientsConc] : n \in 0..MaxBatchConc}}
    \cup GetRequests

-----------------------------------------------------------------------------
(* Specifications. *)

Idle ==
    /\ now = 0
    /\ pc = [w \in Workers |-> "idle"]
    /\ request = [w \in Workers |-> [route |-> "none"]]
    /\ frame = [w \in Workers |-> NoFrame]
    /\ response = [w \in Workers |-> NoResponse]

Loaded(file) ==
    LET g == LoadModel(file)
    IN  /\ model_file = file
        /\ MODEL = g.MODEL
        /\ SCALER = g.SCALER
        /\ FEATURES = g.FEATURES
        /\ FEATURE_IMPORTANCE = g.FEATURE_IMPORTANCE
        /\ METRICS = g.METRICS
        /\ MODEL_NAME = g.MODEL_NAME

\* The process after import: the load has run, no request has arrived.
Init ==
    /\ \E file \in ModelFiles : Loaded(file)
    /\ Idle
    /\ call = [fn |-> "none"]
    /\ ret = Pending

Step(w) ==
    \/ root(w)
    \/ health_check(w)
    \/ predict_validate(w)
    \/ predict_scale(w)
    \/ predict_classify(w)
    \/ predict_respond(w)
    \/ batch_predict_begin(w)
    \/ batch_predict_item(w)
    \/ batch_predict_return(w)
    \/ Finish(w)

\* Two worker threads serve concurrent requests.
Next ==
    \/ \E w \in Workers : \E req \in ConcRequests : Receive(w, req)
    \/ \E w \in Workers : Step(w)
    \/ Tick

Spec == Init /\ [][Next]_vars

\* One worker thread serves one request at a time.
NextServe ==
    \/ \E req \in AllRequests : Receive("w1", req)
    \/ Step("w1")
    \/ Tick

SpecServe == Init /\ [][NextServe]_vars

\* The functions called directly, outside any request.
InitCalls ==
    /\ Loaded(NoFile)
    /\ Idle
    /\ call \in Calls
    /\ ret = Pending

NextCalls ==
    \/ Call_predict
    \/ Call_predict_proba
    \/ Call_get_risk_factors
    \/ Call_get_emergency_note
    \/ Call_generate_base_recommendations

SpecCalls == InitCalls /\ [][NextCalls]_vars

-----------------------------------------------------------------------------
(* Properties of the functions called directly (SpecCalls). *)

ReturnedFrom(fn) == call.fn = fn /\ ret.status = "returned"

\* The rule of get_risk_factors a factor comes from, by its wording.
RuleOf(rf) ==
    CASE rf.factor[1] = "High Blood Pressure" -> 1
      [] rf.factor[1] = "High Cholesterol" -> 2
      [] rf.factor[1] \in {"High BMI", "Overweight BMI"} -> 3
      [] rf.factor[1] = "Heart Disease" -> 4
      [] rf.factor[1] = "Low Physical Activity" -> 5
      [] rf.factor[1] = "Smoking" -> 6
      [] rf.factor[1] = "Poor General Health" -> 7

CriticalCount(rfs) ==
    Cardinality({i \in DOMAIN rfs :
                    "severity" \in DOMAIN rfs[i] /\ rfs[i].severity = "critical"})

RawScores == BoosterPredict(call.self.booster, call.X)

\* C3, as stated: predict returns label 1 exactly when the raw positive-class
\* probability p is at least 0.5, the boundary p = 0.5 included.
C3_LabelOneIffAtLeastHalf ==
    ReturnedFrom("predict") =>
        \A i \in DOMAIN call.X : (ret.value[i] = 1) <=> (2 * RawScores[i] >= PUnit)

\* C3, amended: predict returns label 1 exactly when p is strictly above 0.5
\* (label 0 at p = 0.5), predict_proba returns the pair [1 - p, p], and the
\* label is 1 exactly when the second column of predict_proba is above 0.5.
C3_LabelOneIffAboveHalf ==
    /\ ReturnedFrom("predict") =>
          \A i \in DOMAIN call.X :
             /\ ret.value[i] \in {0, 1}
             /\ (ret.value[i] = 1) <=> (2 * RawScores[i] > PUnit)
    /\ ReturnedFrom("predict_proba") =>
          \A i \in DOMAIN call.X :
             /\ ret.value[i] = <<PUnit - RawScores[i], RawScores[i]>>
             /\ ret.value[i][1] + ret.value[i][2] = PUnit
             /\ (Wrapper_predict(call.self, call.X)[i] = 1)
                   <=> (2 * ret.value[i][2] > PUnit)

C3_Witness ==
    /\ ReturnedFrom("predict")
    /\ \E i \in DOMAIN call.X : 2 * RawScores[i] = PUnit /\ ret.value[i] = 0
    /\ \E i \in DOMAIN call.X : 2 * RawScores[i] > PUnit /\ ret.value[i] = 1

\* C4: get_risk_factors returns a subsequence of the fixed rule order, each
\* rule at most once, whatever the key order of the mapping; the BMI rule
\* gives one critical factor from 30 up, one moderate factor from 25 to below
\* 30, and no factor below 25.
C4_RiskFactorsInRuleOrder ==
    ReturnedFrom("get_risk_factors") =>
        LET d == call.features
            out == ret.value
            bmi == Get(d, "BMI", Num(0)).num
            fromBmi == {i \in DOMAIN out : RuleOf(out[i]) = 3}
        IN  /\ \A i, j \in DOMAIN out : i < j => RuleOf(out[i]) < RuleOf(out[j])
            /\ get_risk_factors(Reverse(d)) = out
            /\ d # <<>> => get_risk_factors(Append(Tail(d), Head(d))) = out
            /\ bmi >= 30 =>
                  /\ Cardinality(fromBmi) = 1
                  /\ \A i \in fromBmi : out[i].severity = "critical"
            /\ (bmi >= 25 /\ bmi < 30) =>
                  /\ Cardinality(fromBmi) = 1
                  /\ \A i \in fromBmi : out[i].severity = "moderate"
            /\ bmi < 25 => fromBmi = {}

C4_Witness ==
    /\ ReturnedFrom("get_risk_factors")
    /\ call.features # <<>>
    /\ call.features[1][1] = "GenHlth"
    /\ Get(call.features, "HighBP", Absent) = Num(1)
    /\ Get(call.features, "BMI", Absent) = Num(30)
    /\ Get(call.features, "Smoker", Absent) = Num(1)
    /\ Len(ret.value) = 3
    /\ [i \in 1..3 |-> RuleOf(ret.value[i])] = <<1, 3, 6>>
    /\ ret.value[2].severity = "critical"

\* C5: get_emergency_note returns exactly one of the three messages: HIGH
\* PRIORITY iff prediction = 1 with more than 2 critical factors, ELEVATED
\* RISK iff prediction = 1 with at most 2, MAINTAIN HEALTHY HABITS iff
\* prediction = 0.
C5_EmergencyNoteSelection ==
    ReturnedFrom("get_emergency_note") =>
        LET n == CriticalCount(call.risk_factors)
        IN  /\ ret.value \in {HIGH_PRIORITY, ELEVATED_RISK, MAINTAIN_HEALTHY_HABITS}
            /\ Cardinality({HIGH_PRIORITY, ELEVATED_RISK, MAINTAIN_HEALTHY_HABITS}) = 3
            /\ (ret.value = HIGH_PRIORITY) <=> (call.prediction = 1 /\ n > 2)
            /\ (ret.value = ELEVATED_RISK) <=> (call.prediction = 1 /\ n <= 2)
            /\ (ret.value = MAINTAIN_HEALTHY_HABITS) <=> (call.prediction = 0)

C5_Witness ==
    /\ ReturnedFrom("get_emergency_note")
    /\ call.prediction = 1
    /\ CriticalCount(call.risk_factors) = 3
    /\ Len(call.risk_factors) = 4
    /\ ret.value = HIGH_PRIORITY

\* C6: the exercise list of generate_base_recommendations is never empty: 2
\* entries when PhysActivity = 0, the 3 fallback entries when PhysActivity = 1,
\* and never the fallback entries on top of the 2 PhysActivity entries.
C6_ExerciseNeverEmpty ==
    ReturnedFrom("generate_base_recommendations") =>
        LET exercise == ret.value.exercise
            active == Get(call.features, "PhysActivity", Absent)
        IN  /\ exercise # <<>>
            /\ active = Num(0) => Len(exercise) = 2
            /\ active = Num(1) => (Len(exercise) = 3 /\ exercise = ExerciseFallback)
            /\ ~(/\ Range(exercise) \cap Range(ExerciseStart) # {}
                 /\ Range(exercise) \cap Range(ExerciseFallback) # {})

C6_Witness ==
    /\ ReturnedFrom("generate_base_recommendations")
    /\ Get(call.features, "PhysActivity", Absent) = Num(0)
    /\ call.prediction = 1
    /\ ret.value.exercise = ExerciseStart

\* C7: on a partial mapping get_risk_factors never raises, and a rule whose
\* key is absent from the mapping contributes no factor; the empty mapping
\* yields the empty sequence.
C7_AbsentKeyNeverTriggers ==
    (call.fn = "get_risk_factors" /\ ret # Pending) =>
        /\ ret.status = "returned"
        /\ \A r \in DOMAIN RuleKeys :
              ~Has(call.features, RuleKeys[r]) =>
                  \A i \in DOMAIN ret.value : RuleOf(ret.value[i]) # r
        /\ call.features = <<>> => ret.value = <<>>

-----------------------------------------------------------------------------
(* Properties of request handling (SpecServe: one worker; Spec: two). *)

Done(w, route) == pc[w] = "done" /\ request[w].route = route

WithoutTimestamp(body) == [f \in DOMAIN body \ {"timestamp"} |-> body[f]]

\* A patient record the batch loop can score: a mapping that holds a number
\* for every required feature.
WellFormed(patient) ==
    /\ patient.type = "dict"
    /\ \A i \in DOMAIN FEATURES :
          /\ Has(patient.items, FEATURES[i])
          /\ IsNum(Get(patient.items, FEATURES[i], None))

BatchOfList(w) ==
    /\ Done(w, "/batch-predict")
    /\ MODEL # None
    /\ "patients" \in DOMAIN request[w].data
    /\ request[w].data.patients.type = "list"

\* C1: with the model loaded, batch_predict answers a list of N records with
\* a 200 holding total_patients = N and N entries, the k-th with patient_id =
\* k; a failing record yields an entry of only patient_id and error; and
\* whether (and what) record k yields depends on record k alone.
C1_BatchProcessesEveryRecord ==
    \A w \in Workers :
        BatchOfList(w) =>
            LET patients == request[w].data.patients.items
                N == Len(patients)
                body == response[w].body
                Outcome(k) ==
                    [f \in DOMAIN body.predictions[k] \ {"patient_id"} |->
                        body.predictions[k][f]]
            IN  /\ response[w].status = 200
                /\ body.total_patients = N
                /\ Len(body.predictions) = N
                /\ \A k \in 1..N :
                      /\ body.predictions[k].patient_id = k
                      /\ WellFormed(patients[k]) =>
                            /\ DOMAIN body.predictions[k] =
                                  {"patient_id", "prediction", "risk_level",
                                   "confidence", "risk_percentage"}
                            /\ body.predictions[k].prediction \in {0, 1}
                      /\ ~WellFormed(patients[k]) =>
                            DOMAIN body.predictions[k] = {"patient_id", "error"}
                      /\ \A j \in 1..N :
                            patients[j] = patients[k] => Outcome(j) = Outcome(k)

C1_Witness ==
    \E w \in Workers :
        /\ BatchOfList(w)
        /\ Len(request[w].data.patients.items) = 3
        /\ WellFormed(request[w].data.patients.items[1])
        /\ ~WellFormed(request[w].data.patients.items[2])
        /\ WellFormed(request[w].data.patients.items[3])
        /\ response[w].body.total_patients = 3
        /\ "prediction" \in DOMAIN response[w].body.predictions[1]
        /\ DOMAIN response[w].body.predictions[2] = {"patient_id", "error"}
        /\ response[w].body.predictions[3].prediction = 1

LacksFeature(w) ==
    /\ request[w].route = "/predict"
    /\ MODEL # None
    /\ "features" \in DOMAIN request[w].data
    /\ request[w].data.features.type = "dict"
    /\ Range(FEATURES) \ Keys(request[w].data.features.items) # {}

\* C2: predict answers a mapping that lacks required names with a 400 whose
\* 'missing' list holds exactly the absent required names, each once, in
\* canonical order, and the request never reaches the scaler or classifier.
C2_ReportsEveryMissingFeature ==
    \A w \in Workers :
        LacksFeature(w) =>
            /\ pc[w] \in {"/predict", "done"}
            /\ frame[w] = NoFrame
            /\ pc[w] = "done" =>
                  LET missing == response[w].body.missing
                  IN  /\ response[w].status = 400
                      /\ Range(missing) =
                            Range(FEATURES) \ Keys(request[w].data.features.items)
                      /\ \A i, j \in DOMAIN missing :
                            i < j => IndexOf(FEATURES, missing[i])
                                        < IndexOf(FEATURES, missing[j])

C2_Witness ==
    \E w \in Workers :
        /\ LacksFeature(w)
        /\ pc[w] = "done"
        /\ request[w].data.features.items # <<>>
        /\ request[w].data.features.items[1][1] = "Income"
        /\ response[w].status = 400
        /\ response[w].body.missing = <<"BMI", "Smoker">>

LoadFails(file) ==
    \/ ~file.readable
    \/ {"model", "scaler", "features", "metrics", "model_name"} \ DOMAIN file.data # {}

ModelNotLoaded == [status |-> 500, body |-> [error |-> "Model not loaded"]]

AnswersWithoutModel ==
    \A w \in Workers :
        /\ request[w].route \in {"/predict", "/batch-predict"} =>
              /\ pc[w] \in {request[w].route, "done"}
              /\ frame[w] = NoFrame
              /\ pc[w] = "done" => response[w] = ModelNotLoaded
        /\ (pc[w] = "done" /\ request[w].route \in {"/", "/health"}) =>
              /\ response[w].status = 200
              /\ response[w].body.model = "not loaded"

\* C8: when the load at startup fails, every predict and batch_predict
\* request is answered 'Model not loaded' without reading features, scaling
\* or classifying, root and health_check still answer, and no step moves the
\* process between the not-loaded and the loaded state.
C8_ModelUnavailable ==
    /\ [](LoadFails(model_file) => (MODEL = None /\ AnswersWithoutModel))
    /\ [][(MODEL' = None) <=> (MODEL = None)]_vars

C8_Witness ==
    /\ LoadFails(model_file)
    /\ model_file.readable
    /\ Done("w1", "/predict") /\ response["w1"] = ModelNotLoaded
    /\ Done("w2", "/health") /\ response["w2"].status = 200

\* The single-prediction pipeline run from start to end on its own.
PredictAlone(input_features) ==
    LET input_scaled == <<Scaler_transform(SCALER, SelectColumns(FEATURES, input_features))>>
        prediction == Model_predict(MODEL, input_scaled)[1]
        risk_factors == get_risk_factors(input_features)
    IN  [prediction |-> prediction,
         probabilities |->
            IF HasPredictProba(MODEL)
            THEN Model_predict_proba(MODEL, input_scaled)[1]
            ELSE <<>>,
         risk_factors |-> risk_factors,
         recommendations |->
            generate_base_recommendations(input_features, prediction, risk_factors)]

Predicted(w) == Done(w, "/predict") /\ response[w].status = 200

Result(w) ==
    LET body == response[w].body
    IN  [prediction |-> body.prediction,
         probabilities |->
            IF body.probabilities.diabetes = None THEN <<>>
            ELSE <<body.probabilities.no_diabetes.num, body.probabilities.diabetes.num>>,
         risk_factors |-> body.risk_factors,
         recommendations |-> body.recommendations]

\* C9: under any interleaving of requests on different worker threads no
\* step writes MODEL, SCALER or FEATURES, each predict response (timestamp
\* aside) is what the request yields when run alone, and so two predict
\* requests with the same FeatureSet yield the same results.
C9_RequestsAreIndependent ==
    /\ [](\A w \in Workers :
            Predicted(w) =>
                /\ Result(w) = PredictAlone(request[w].data.features.items)
                /\ \A v \in Workers :
                      (Predicted(v) /\ request[v] = request[w]) =>
                          WithoutTimestamp(response[v].body)
                              = WithoutTimestamp(response[w].body))
    /\ [][UNCHANGED <<MODEL, SCALER, FEATURES>>]_vars

C9_Witness ==
    /\ Predicted("w1") /\ Predicted("w2")
    /\ request["w1"] = request["w2"]
    /\ response["w1"].body.timestamp # response["w2"].body.timestamp
    /\ response["w1"].body.prediction = 1
    /\ Result("w1") = Result("w2")

\* C10: in the predict pipeline the risk factors handed to get_emergency_note
\* are those get_risk_factors finds for the request, at most one of them is
\* critical, so no successful response carries the HIGH PRIORITY note and
\* every response with prediction = 1 carries the ELEVATED RISK note.
C10_NeverHighPriority ==
    \A w \in Workers :
        Predicted(w) =>
            LET body == response[w].body
            IN  /\ body.risk_factors = get_risk_factors(request[w].data.features.items)
                /\ CriticalCount(body.risk_factors) <= 1
                /\ body.recommendations.emergency_note # HIGH_PRIORITY
                /\ body.prediction = 1 =>
                      body.recommendations.emergency_note = ELEVATED_RISK
                /\ body.prediction = 0 =>
                      body.recommendations.emergency_note = MAINTAIN_HEALTHY_HABITS

C10_Witness ==
    \E w \in Workers :
        /\ Predicted(w)
        /\ response[w].body.prediction = 1
        /\ CriticalCount(response[w].body.risk_factors) = 1
        /\ Len(response[w].body.risk_factors) = 7
        /\ response[w].body.recommendations.emergency_note = ELEVATED_RISK

=============================================================================
